---- MODULE Spec2Model ----
(***************************************************************************)
(* Model of the PagerDuty and Datadog MCP tool servers.                    *)
(*                                                                         *)
(* Every tool function is a synchronous, request-scoped call.  One action  *)
(* of the model is one whole invocation: it draws the arguments and the    *)
(* behaviour of the remote API client, runs the function as the source     *)
(* runs it, and records what the caller observes (the value returned or    *)
(* the exception raised), the remote calls made and the lines logged.      *)
(*                                                                         *)
(* Python strings that the code inspects character by character are        *)
(* tuples of one-character strings.  A Python Optional is None (the empty  *)
(* tuple) or Some(x) (a one-element tuple).  A value stored under a        *)
(* dynamic dictionary key carries a tag t naming its Python type.          *)
(***************************************************************************)
EXTENDS Integers, Sequences, FiniteSets, TLC

VARIABLES op, args, outcome, result, exc, calls, log

vars == <<op, args, outcome, result, exc, calls, log>>

-----------------------------------------------------------------------------
(* Python values *)

None == <<>>
Some(x) == <<x>>
IsNone(o) == Len(o) = 0
Val(o) == o[1]

Range(s) == {s[i] : i \in 1..Len(s)}

\* the lists of length at most n over S
SeqsUpTo(S, n) == UNION {[1..k -> S] : k \in 0..n}

\* the dictionary {}
EmptyDict == [k \in {} |-> 0]

\* d.get(k, default) for a dictionary d
Get(d, k, default) == IF k \in DOMAIN d THEN d[k] ELSE default

\* d.get(k): None when the key is absent
GetOpt(d, k) == IF k \in DOMAIN d THEN Some(d[k]) ELSE None

\* the dictionary {k: v}, or {} when the field is left out
Field(k, o) == IF IsNone(o) THEN EmptyDict ELSE (k :> Val(o))

-----------------------------------------------------------------------------
(* Strings *)

Whitespace == {" ", "\t", "\n"}

RECURSIVE LStrip(_)
LStrip(s) ==
    IF Len(s) > 0 /\ s[1] \in Whitespace THEN LStrip(Tail(s)) ELSE s

RECURSIVE RStrip(_)
RStrip(s) ==
    IF Len(s) > 0 /\ s[Len(s)] \in Whitespace
    THEN RStrip(SubSeq(s, 1, Len(s) - 1))
    ELSE s

\* str.strip()
Strip(s) == RStrip(LStrip(s))

\* str.startswith(prefix)
StartsWith(s, prefix) ==
    /\ Len(s) >= Len(prefix)
    /\ SubSeq(s, 1, Len(prefix)) = prefix

KMetadata == <<"m", "e", "t", "a", "d", "a", "t", "a">>
KError == <<"e", "r", "r", "o", "r">>
NIncidents == <<"i", "n", "c", "i", "d", "e", "n", "t", "s">>
NIncident == <<"i", "n", "c", "i", "d", "e", "n", "t">>
NServices == <<"s", "e", "r", "v", "i", "c", "e", "s">>
NService == <<"s", "e", "r", "v", "i", "c", "e">>

-----------------------------------------------------------------------------
(* Exceptions and outcomes of a call *)

NoExc == [type |-> "none"]
ValidationError(m) == [type |-> "ValidationError", msg |-> m, response |-> None]
ValueError(m) == [type |-> "ValueError", msg |-> m, response |-> None]
RuntimeError(m) == [type |-> "RuntimeError", msg |-> m, response |-> None]
KeyError(m) == [type |-> "KeyError", msg |-> m, response |-> None]

NoResult == [t |-> "none"]

Returned(v, c, l) ==
    [outcome |-> "return", result |-> v, exc |-> NoExc, calls |-> c, log |-> l]
Raised(e, c, l) ==
    [outcome |-> "raise", result |-> NoResult, exc |-> e, calls |-> c, log |-> l]

-----------------------------------------------------------------------------
(* utils.py: api_response_handler *)

RESPONSE_LIMIT == 500

MetaV(m) == [t |-> "dict", v |-> m]
ListV(l) == [t |-> "list", v |-> l]
ErrV(e) == [t |-> "error", v |-> e]

\* a dictionary display {k1: v1, k2: v2}: a later key replaces an equal earlier one
Dict2(k1, v1, k2, v2) == (k2 :> v2) @@ (k1 :> v1)

\* dict.update(other)
Update(d, other) == other @@ d

ExceedsText(n, name, limit) ==
    [fmt |-> "Query returned {n} {name}, which exceeds the limit of {limit}",
     n |-> n, name |-> name, limit |-> limit]

\* a variant that also writes 'result' for no records
FoundTextSingularAtZero(n, name) ==
    [fmt |-> "Found {n} {word} for resource type {name}",
     n |-> n, word |-> IF n <= 1 THEN "result" ELSE "results", name |-> name]

FoundText(n, name) ==
    [fmt |-> "Found {n} {word} for resource type {name}",
     n |-> n, word |-> IF n = 1 THEN "result" ELSE "results", name |-> name]

\* results is [t |-> "dict", v |-> record] or [t |-> "list", v |-> records]:
\* a single dictionary becomes a one-element list
AsList(results) == IF results.t = "dict" THEN <<results.v>> ELSE results.v

\* if additional_metadata: neither None nor {}
Truthy(additional_metadata) ==
    /\ ~IsNone(additional_metadata)
    /\ DOMAIN Val(additional_metadata) # {}

\* a variant that tests only: not resource_name
BlankEmptyOnly(resource_name) == Len(resource_name) = 0

\* not resource_name or not resource_name.strip()
Blank(resource_name) == Len(resource_name) = 0 \/ Len(Strip(resource_name)) = 0

\* a variant that also returns an empty list under the resource key
LimitExceededTruncated(n, resource_name, limit) ==
    Dict2(KMetadata,
          MetaV([count |-> n,
                 description |-> ExceedsText(n, resource_name, limit)]),
          KError,
          ErrV([code |-> "LIMIT_EXCEEDED",
                message |-> ExceedsText(n, resource_name, limit)]))
    @@ (resource_name :> ListV(<<>>))

\* the envelope returned when len(results) > limit
LimitExceeded(n, resource_name, limit) ==
    Dict2(KMetadata,
          MetaV([count |-> n,
                 description |-> ExceedsText(n, resource_name, limit)]),
          KError,
          ErrV([code |-> "LIMIT_EXCEEDED",
                message |-> ExceedsText(n, resource_name, limit)]))

\* a variant in which the computed defaults win over the caller's keys
MetadataDefaultsWin(n, resource_name, additional_metadata) ==
    IF Truthy(additional_metadata)
    THEN Update(Val(additional_metadata),
                [count |-> n, description |-> FoundText(n, resource_name)])
    ELSE [count |-> n, description |-> FoundText(n, resource_name)]

\* the metadata of a response within the limit
Metadata(n, resource_name, additional_metadata) ==
    IF Truthy(additional_metadata)
    THEN Update([count |-> n, description |-> FoundText(n, resource_name)],
                Val(additional_metadata))
    ELSE [count |-> n, description |-> FoundText(n, resource_name)]

\* the caller's additional_metadata once api_response_handler is over:
\* metadata.update(additional_metadata) writes to metadata and only reads its
\* argument, and nothing else touches it
CallerMetadataAfter(additional_metadata) == additional_metadata

\* api_response_handler once results is a list
Envelope(results, resource_name, limit, additional_metadata) ==
    IF Len(results) > limit
    THEN LimitExceeded(Len(results), resource_name, limit)
    ELSE Dict2(KMetadata,
               MetaV(Metadata(Len(results), resource_name, additional_metadata)),
               resource_name,
               ListV(results))

\* api_response_handler: it raises ValidationError or returns an envelope
ApiResponseHandler(results, resource_name, limit, additional_metadata) ==
    IF Blank(resource_name)
    THEN [raises |-> TRUE, exc |-> ValidationError("resource_name cannot be empty")]
    ELSE [raises |-> FALSE,
          env |-> Envelope(AsList(results), resource_name, limit,
                           additional_metadata)]

\* the caller's view of a call of api_response_handler
HandlerOutcome(h, c, l) ==
    IF h.raises THEN Raised(h.exc, c, l)
    ELSE Returned([t |-> "envelope", v |-> h.env], c, l)

-----------------------------------------------------------------------------
(* utils.py: try_convert_relative_time_to_pdt_iso, validate_iso8601_timestamp *)

Digits == <<"0", "1", "2", "3", "4", "5", "6", "7", "8", "9">>
DigitChars == {Digits[i] : i \in 1..10}
IsDigit(c) == c \in DigitChars
DigitVal(c) == (CHOOSE i \in 1..10 : Digits[i] = c) - 1

UpperCase ==
    <<"A", "B", "C", "D", "E", "F", "G", "H", "I", "J", "K", "L", "M",
      "N", "O", "P", "Q", "R", "S", "T", "U", "V", "W", "X", "Y", "Z">>
LowerCase ==
    <<"a", "b", "c", "d", "e", "f", "g", "h", "i", "j", "k", "l", "m",
      "n", "o", "p", "q", "r", "s", "t", "u", "v", "w", "x", "y", "z">>

\* str.lower() of one character
Lower(c) ==
    IF \E i \in 1..Len(UpperCase) : UpperCase[i] = c
    THEN LowerCase[CHOOSE i \in 1..Len(UpperCase) : UpperCase[i] = c]
    ELSE c

LowerStr(s) == [i \in 1..Len(s) |-> Lower(s[i])]

\* int() of a string of decimal digits
RECURSIVE IntOf(_)
IntOf(s) ==
    IF Len(s) = 0 THEN 0
    ELSE 10 * IntOf(SubSeq(s, 1, Len(s) - 1)) + DigitVal(s[Len(s)])

\* number of characters of s, from position i on, that are in C without a break
RECURSIVE RunLen(_, _, _)
RunLen(s, i, C) ==
    IF i <= Len(s) /\ s[i] \in C THEN 1 + RunLen(s, i + 1, C) ELSE 0

\* s carries the word w at position i, whatever the case of its letters
WordAt(s, i, w) ==
    /\ i + Len(w) - 1 <= Len(s)
    /\ LowerStr(SubSeq(s, i, i + Len(w) - 1)) = w

WHour == <<"h", "o", "u", "r">>
WMinute == <<"m", "i", "n", "u", "t", "e">>
WAgo == <<"a", "g", "o">>

NoMatch == [matched |-> FALSE, value |-> 0, unit |-> "none"]

\* a variant that matches like re.match: text may follow 'ago'
MatchAgoThenAnything(s, nd, unit, v, w2) ==
    IF w2 >= 1 /\ WordAt(s, v + w2, WAgo)
    THEN [matched |-> TRUE, value |-> IntOf(SubSeq(s, 1, nd)), unit |-> unit]
    ELSE NoMatch

\* re.fullmatch(r"(\d+)\s+(hour|minute)s?\s+ago", s, re.IGNORECASE), read from
\* left to right.  The pieces are disjoint character classes, so each piece
\* takes the longest run there is.  \s+ago from position v to the end:
MatchAgo(s, nd, unit, v, w2) ==
    IF w2 >= 1 /\ WordAt(s, v + w2, WAgo) /\ v + w2 + Len(WAgo) - 1 = Len(s)
    THEN [matched |-> TRUE, value |-> IntOf(SubSeq(s, 1, nd)), unit |-> unit]
    ELSE NoMatch

\* s? at position p
MatchPlural(s, nd, unit, p) ==
    IF p <= Len(s) /\ Lower(s[p]) = "s"
    THEN MatchAgo(s, nd, unit, p + 1, RunLen(s, p + 1, Whitespace))
    ELSE MatchAgo(s, nd, unit, p, RunLen(s, p, Whitespace))

\* (hour|minute) at position u
MatchUnit(s, nd, u) ==
    IF WordAt(s, u, WHour) THEN MatchPlural(s, nd, "hour", u + Len(WHour))
    ELSE IF WordAt(s, u, WMinute)
    THEN MatchPlural(s, nd, "minute", u + Len(WMinute))
    ELSE NoMatch

\* \s+ after the nd digits
MatchSpace(s, nd, w1) ==
    IF nd >= 1 /\ w1 >= 1 THEN MatchUnit(s, nd, nd + w1 + 1) ELSE NoMatch

\* (\d+)
MatchDigits(s, nd) == MatchSpace(s, nd, RunLen(s, nd + 1, Whitespace))

RelativeMatch(s) == MatchDigits(s, RunLen(s, 1, DigitChars))

MinutesPerHour == 60
MinutesPerDay == 1440

\* the fixed offset of timezone(timedelta(hours=-7)), in minutes
PdtOffset == -7 * MinutesPerHour

IsLeap(y) == ((y % 4) = 0 /\ (y % 100) # 0) \/ (y % 400) = 0

DaysInMonth(y, m) ==
    IF m = 2 THEN (IF IsLeap(y) THEN 29 ELSE 28)
    ELSE IF m \in {4, 6, 9, 11} THEN 30 ELSE 31

\* days from 1970-01-01 to the proleptic Gregorian date: yy is the year that
\* starts in March, doy the day of that year
DaysOfEra(yy, era, doy) ==
    era * 146097
    + (yy - era * 400) * 365 + ((yy - era * 400) \div 4)
    - ((yy - era * 400) \div 100) + doy - 719468

DaysFromMarch(yy, mp, d) ==
    DaysOfEra(yy, yy \div 400, ((153 * mp + 2) \div 5) + d - 1)

DaysFromCivil(y, m, d) ==
    DaysFromMarch(IF m <= 2 THEN y - 1 ELSE y,
                  IF m > 2 THEN m - 3 ELSE m + 9, d)

\* the proleptic Gregorian date of a day number, by the same steps backwards
CivilDate(y, m, d) ==
    [year |-> IF m <= 2 THEN y + 1 ELSE y, month |-> m, day |-> d]

CivilFromMp(y, doy, mp) ==
    CivilDate(y, IF mp < 10 THEN mp + 3 ELSE mp - 9,
              doy - ((153 * mp + 2) \div 5) + 1)

CivilFromDoy(y, doy) == CivilFromMp(y, doy, (5 * doy + 2) \div 153)

CivilFromYoe(era, doe, yoe) ==
    CivilFromDoy(yoe + era * 400,
                 doe - (365 * yoe + (yoe \div 4) - (yoe \div 100)))

CivilFromDoe(era, doe) ==
    CivilFromYoe(era, doe,
                 (doe - (doe \div 1460) + (doe \div 36524) - (doe \div 146096))
                     \div 365)

CivilFromEra(z, era) == CivilFromDoe(era, z - era * 146097)

CivilFromDays(days) == CivilFromEra(days + 719468, (days + 719468) \div 146097)

\* datetime.min (0001-01-01T00:00), in minutes from 1970-01-01T00:00
MinInstant == DaysFromCivil(1, 1, 1) * MinutesPerDay

Pad2(n) == <<Digits[(n \div 10) + 1], Digits[(n % 10) + 1]>>
Pad4(n) == Pad2(n \div 100) \o Pad2(n % 100)
Pad6(n) == Pad2(n \div 10000) \o Pad4(n % 10000)

\* [+-]HH:MM
OffsetText(sign, a) ==
    <<sign>> \o Pad2(a \div MinutesPerHour) \o <<":">> \o Pad2(a % MinutesPerHour)

\* YYYY-MM-DDTHH:MM:SS[.ffffff]+HH:MM
IsoText(c, rest, sec, micro, off) ==
    Pad4(c.year) \o <<"-">> \o Pad2(c.month) \o <<"-">> \o Pad2(c.day)
    \o <<"T">> \o Pad2(rest \div MinutesPerHour) \o <<":">>
    \o Pad2(rest % MinutesPerHour) \o <<":">> \o Pad2(sec)
    \o (IF micro # 0 THEN <<".">> \o Pad6(micro) ELSE <<>>)
    \o (IF off < 0 THEN OffsetText("-", -off) ELSE OffsetText("+", off))

\* astimezone(off).isoformat() of the instant t: its minutes from
\* 1970-01-01T00:00 UTC, its second and its microsecond
IsoFormat(t, off) ==
    IsoText(CivilFromDays((t.min + off) \div MinutesPerDay),
            (t.min + off) % MinutesPerDay, t.sec, t.micro, off)

\* now_utc - delta, then astimezone and isoformat: a target before
\* datetime.min raises OverflowError
ConvertDelta(now, delta) ==
    IF now.min - delta + PdtOffset < MinInstant
    THEN [raises |-> TRUE, value |-> None]
    ELSE [raises |-> FALSE,
          value |-> Some(IsoFormat([now EXCEPT !.min = now.min - delta],
                                   PdtOffset))]

\* the branch of try_convert_relative_time_to_pdt_iso the match selects
ConvertMatch(time_param_value, match, now) ==
    IF ~match.matched
    THEN [raises |-> FALSE, value |-> time_param_value]
    ELSE IF match.unit = "hour"
    THEN ConvertDelta(now, match.value * MinutesPerHour)
    ELSE ConvertDelta(now, match.value)

\* try_convert_relative_time_to_pdt_iso at the instant now = datetime.now(utc).
\* time_param_value is an Optional string
TryConvertRelativeTimeToPdtIso(time_param_value, now) ==
    IF IsNone(time_param_value) \/ Len(Val(time_param_value)) = 0
    THEN [raises |-> FALSE, value |-> time_param_value]
    ELSE ConvertMatch(time_param_value, RelativeMatch(Val(time_param_value)),
                      now)

\* str.replace('Z', '+00:00')
RECURSIVE ReplaceZ(_)
ReplaceZ(s) ==
    IF Len(s) = 0 THEN <<>>
    ELSE (IF s[1] = "Z" THEN <<"+", "0", "0", ":", "0", "0">> ELSE <<s[1]>>)
         \o ReplaceZ(Tail(s))

AllDigits(s) == \A i \in 1..Len(s) : IsDigit(s[i])

\* two digits at position i of s that read as a number of at most max
TwoDigits(s, i, max) ==
    /\ IsDigit(s[i]) /\ IsDigit(s[i + 1])
    /\ 10 * DigitVal(s[i]) + DigitVal(s[i + 1]) <= max

\* HH[:MM[:SS[.fff[fff]]]] with the fields in range
ValidClock(s) ==
    /\ Len(s) \in {2, 5, 8, 12, 15}
    /\ TwoDigits(s, 1, 23)
    /\ Len(s) >= 5 => s[3] = ":" /\ TwoDigits(s, 4, 59)
    /\ Len(s) >= 8 => s[6] = ":" /\ TwoDigits(s, 7, 59)
    /\ Len(s) >= 12 => s[9] = "." /\ AllDigits(SubSeq(s, 10, Len(s)))

\* position of the first '+' or '-' of s, 0 when there is none
SignPos(s) ==
    IF \E i \in 1..Len(s) : s[i] \in {"+", "-"}
    THEN CHOOSE i \in 1..Len(s) :
             /\ s[i] \in {"+", "-"}
             /\ \A j \in 1..(i - 1) : s[j] \notin {"+", "-"}
    ELSE 0

\* the time of day, and the offset behind the sign at position p
ValidTimeAt(tstr, p) ==
    IF p = 0 THEN ValidClock(tstr)
    ELSE /\ ValidClock(SubSeq(tstr, 1, p - 1))
         /\ Len(tstr) - p \in {5, 8, 15}
         /\ ValidClock(SubSeq(tstr, p + 1, Len(tstr)))

ValidYmd(y, m, d) == y >= 1 /\ m \in 1..12 /\ d >= 1 /\ d <= DaysInMonth(y, m)

\* YYYY-MM-DD naming a day of the calendar
ValidDate(s) ==
    /\ Len(s) = 10
    /\ AllDigits(SubSeq(s, 1, 4)) /\ s[5] = "-"
    /\ AllDigits(SubSeq(s, 6, 7)) /\ s[8] = "-"
    /\ AllDigits(SubSeq(s, 9, 10))
    /\ ValidYmd(IntOf(SubSeq(s, 1, 4)), IntOf(SubSeq(s, 6, 7)),
                IntOf(SubSeq(s, 9, 10)))

\* datetime.fromisoformat accepts s:
\* YYYY-MM-DD[*HH[:MM[:SS[.fff[fff]]]][+HH:MM[:SS[.ffffff]]]]
FromIsoFormatOk(s) ==
    /\ Len(s) >= 10
    /\ ValidDate(SubSeq(s, 1, 10))
    /\ Len(s) > 10 =>
           ValidTimeAt(SubSeq(s, 12, Len(s)), SignPos(SubSeq(s, 12, Len(s))))

\* validate_iso8601_timestamp: TRUE when it returns, FALSE when it raises
\* ValidationError
ValidateIso8601Timestamp(timestamp) == FromIsoFormatOk(ReplaceZ(timestamp))

-----------------------------------------------------------------------------
(* The remote API client *)

\* an exception raised by the client: e.response is None or carries the body
RemoteErrors ==
    { [type |-> "HTTPError", msg |-> "503 Server Error",
       response |-> Some([text |-> "upstream body"])],
      [type |-> "ConnectionError", msg |-> "connection refused",
       response |-> None] }

RemoteRaises(e) == [raises |-> TRUE, exc |-> e]
RemoteReturns(v) == [raises |-> FALSE, value |-> v]

RemoteCall(fn, url, params) == [fn |-> fn, url |-> url, params |-> params]

\* handle_api_error: the line it logs; it then raises e itself
ErrorMessage(e) ==
    IF ~IsNone(e.response) THEN Val(e.response).text ELSE e.msg

HandleApiError(e, c, l) == Raised(e, c, Append(l, ErrorMessage(e)))

-----------------------------------------------------------------------------
(* parsers.py: field projections of the remote records *)

ParsedIncidentFields == {"id", "title", "status", "urgency", "created_at"}
ParsedServiceFields == {"id", "name", "status"}

Project(r, fields) == [k \in (DOMAIN r) \cap fields |-> r[k]]

ParseIncident(r) == Project(r, ParsedIncidentFields)
ParseService(r) == Project(r, ParsedServiceFields)

-----------------------------------------------------------------------------
(* incidents.py *)

INCIDENTS_URL == "/incidents"

VALID_STATUSES == <<"triggered", "acknowledged", "resolved">>
DEFAULT_STATUSES == <<"triggered", "acknowledged", "resolved">>
VALID_URGENCIES == <<"high", "low">>
DEFAULT_URGENCIES == <<"high", "low">>

AUTORESOLVE_TYPE == "service_reference"

NoDataPrefix == <<"N", "o", " ", "D", "a", "t", "a", ":">>

\* status in VALID_STATUSES, for status = incident.get('status')
StatusIsValid(status) ==
    ~IsNone(status) /\ Val(status) \in Range(VALID_STATUSES)

HasStatus(incident, st) ==
    /\ StatusIsValid(GetOpt(incident, "status"))
    /\ Val(GetOpt(incident, "status")) = st

\* _count_incident_statuses: only the statuses met get a key
CountIncidentStatuses(incidents) ==
    LET met == {st \in Range(VALID_STATUSES) :
                   \E i \in 1..Len(incidents) : HasStatus(incidents[i], st)}
    IN  [st \in met |-> Cardinality({i \in 1..Len(incidents) :
                                         HasStatus(incidents[i], st)})]

\* a variant that looks at the type only, whatever the status
IsChangedByService(incident) ==
    Get(Get(incident, "last_status_change_by", EmptyDict), "type", "")
        = AUTORESOLVE_TYPE

IsAutoresolved(incident) ==
    /\ GetOpt(incident, "status") = Some("resolved")
    /\ Get(Get(incident, "last_status_change_by", EmptyDict), "type", "")
           = AUTORESOLVE_TYPE

\* _count_autoresolved_incidents
CountAutoresolvedIncidents(incidents) ==
    Cardinality({i \in 1..Len(incidents) : IsAutoresolved(incidents[i])})

\* a variant that compares without regard to case
IsNoDataAnyCase(incident) ==
    StartsWith(LowerStr(Get(incident, "title", <<>>)), LowerStr(NoDataPrefix))

IsNoData(incident) == StartsWith(Get(incident, "title", <<>>), NoDataPrefix)

\* _count_no_data_incidents
CountNoDataIncidents(incidents) ==
    Cardinality({i \in 1..Len(incidents) : IsNoData(incidents[i])})

\* a variant whose answer for no incidents has no statuses
CalculateIncidentMetadataBareEmpty(incidents) ==
    IF Len(incidents) = 0
    THEN [status_counts |-> EmptyDict,
          autoresolve_count |-> 0,
          no_data_count |-> 0]
    ELSE [status_counts |->
              [st \in Range(VALID_STATUSES) |->
                   Get(CountIncidentStatuses(incidents), st, 0)],
          autoresolve_count |-> CountAutoresolvedIncidents(incidents),
          no_data_count |-> CountNoDataIncidents(incidents)]

\* a variant that leaves out the statuses no incident has
CalculateIncidentMetadataSparse(incidents) ==
    [status_counts |-> CountIncidentStatuses(incidents),
     autoresolve_count |-> CountAutoresolvedIncidents(incidents),
     no_data_count |-> CountNoDataIncidents(incidents)]

\* _calculate_incident_metadata
CalculateIncidentMetadata(incidents) ==
    IF Len(incidents) = 0
    THEN [status_counts |-> [st \in Range(VALID_STATUSES) |-> 0],
          autoresolve_count |-> 0,
          no_data_count |-> 0]
    ELSE
        LET status_counts == CountIncidentStatuses(incidents)
        IN  [status_counts |->
                 [st \in Range(VALID_STATUSES) |-> Get(status_counts, st, 0)],
             autoresolve_count |-> CountAutoresolvedIncidents(incidents),
             no_data_count |-> CountNoDataIncidents(incidents)]

\* [x for x in values if x not in valid]
Invalid(values, valid) == SelectSeq(values, LAMBDA x : x \notin Range(valid))

\* a truthy Optional list or string
NonEmpty(o) == ~IsNone(o) /\ Len(Val(o)) > 0

\* the params dictionary list_incidents builds
IncidentParams(service_ids, team_ids, statuses, since, until, limit) ==
    (IF NonEmpty(service_ids) THEN "service_ids" :> Val(service_ids) ELSE EmptyDict)
    @@ (IF NonEmpty(team_ids) THEN "team_ids" :> Val(team_ids) ELSE EmptyDict)
    @@ (IF Len(statuses) > 0 THEN "statuses[]" :> statuses ELSE EmptyDict)
    @@ (IF NonEmpty(since) THEN "since" :> Val(since) ELSE EmptyDict)
    @@ (IF NonEmpty(until) THEN "until" :> Val(until) ELSE EmptyDict)
    @@ (IF ~IsNone(limit) /\ Val(limit) # 0 THEN "limit" :> Val(limit)
        ELSE EmptyDict)

OverflowError == [type |-> "OverflowError", msg |-> "date value out of range",
                  response |-> None]

\* the tail every tool function but list_services shares:
\*     try: return utils.api_response_handler(...)
\*     except Exception as e: utils.handle_api_error(e)
Respond(h, call) ==
    IF h.raises THEN HandleApiError(h.exc, call, <<>>)
    ELSE HandlerOutcome(h, call, <<>>)

ParseIncidents(response) ==
    [i \in 1..Len(response) |-> ParseIncident(response[i])]

\* a variant that returns the records without the first one, and the
\* metadata of all of them
FetchIncidentsWithoutFirst(call, remote) ==
    IF remote.raises
    THEN HandleApiError(remote.exc, call, <<>>)
    ELSE Respond(ApiResponseHandler(
                     ListV(ParseIncidents(
                         IF Len(remote.value) = 0 THEN <<>>
                         ELSE Tail(remote.value))),
                     NIncidents, RESPONSE_LIMIT,
                     Some(CalculateIncidentMetadata(remote.value))),
                 call)

\* a variant that calls the client a second time when the first call raises
FetchIncidentsRetrying(call, remote) ==
    IF remote.raises
    THEN HandleApiError(remote.exc, call \o call, <<>>)
    ELSE Respond(ApiResponseHandler(
                     ListV(ParseIncidents(remote.value)), NIncidents,
                     RESPONSE_LIMIT,
                     Some(CalculateIncidentMetadata(remote.value))),
                 call)

\* the try block of list_incidents; remote is what pd_client.list_all does
FetchIncidents(call, remote) ==
    IF remote.raises
    THEN HandleApiError(remote.exc, call, <<>>)
    ELSE Respond(ApiResponseHandler(
                     ListV(ParseIncidents(remote.value)), NIncidents,
                     RESPONSE_LIMIT,
                     Some(CalculateIncidentMetadata(remote.value))),
                 call)

\* list_incidents from the conversion of since and until on
ListIncidentsFrom(service_ids, team_ids, statuses, processed_since, processed_until, limit, remote) ==
    IF processed_since.raises \/ processed_until.raises
    THEN Raised(OverflowError, <<>>, <<>>)
    ELSE IF /\ NonEmpty(processed_since.value)
            /\ ~ValidateIso8601Timestamp(Val(processed_since.value))
    THEN Raised(ValidationError("Invalid ISO8601 timestamp for since"),
                <<>>, <<>>)
    ELSE IF /\ NonEmpty(processed_until.value)
            /\ ~ValidateIso8601Timestamp(Val(processed_until.value))
    THEN Raised(ValidationError("Invalid ISO8601 timestamp for until"),
                <<>>, <<>>)
    ELSE FetchIncidents(
             <<RemoteCall("list_all", INCIDENTS_URL,
                          IncidentParams(service_ids, team_ids, statuses,
                                         processed_since.value,
                                         processed_until.value, limit))>>,
             remote)

\* statuses, or DEFAULT_STATUSES when it is None
StatusesOrDefault(statuses) ==
    IF IsNone(statuses) THEN DEFAULT_STATUSES ELSE Val(statuses).v

\* list_incidents.  statuses and urgencies are None or Some([t, v]) with t the
\* Python type of the argument and v its elements; now is datetime.now(utc)
ListIncidents(service_ids, team_ids, statuses, urgencies, since, until, limit, now, remote) ==
    IF ~IsNone(statuses) /\ Len(Invalid(Val(statuses).v, VALID_STATUSES)) > 0
    THEN Raised(ValueError("Invalid status values"), <<>>, <<>>)
    ELSE IF /\ ~IsNone(urgencies)
            /\ Len(Invalid(Val(urgencies).v, VALID_URGENCIES)) > 0
    THEN Raised(ValueError("Invalid urgency values"), <<>>, <<>>)
    ELSE IF ~IsNone(statuses) /\ Val(statuses).t \notin {"list", "str"}
    THEN Raised(ValueError("statuses must be a list or string"), <<>>, <<>>)
    ELSE ListIncidentsFrom(service_ids, team_ids, StatusesOrDefault(statuses),
                           TryConvertRelativeTimeToPdtIso(since, now),
                           TryConvertRelativeTimeToPdtIso(until, now),
                           limit, remote)

\* not incident_id / not service_id: None or the empty string
Falsy(id) == IsNone(id) \/ Val(id) = ""

\* a list of one call of pd_client.jget
JGet(url, params) == <<RemoteCall("jget", url, params)>>

\* show_incident
ShowIncident(incident_id, remote) ==
    LET call == JGet(<<INCIDENTS_URL, Val(incident_id)>>, EmptyDict)
    IN  IF Falsy(incident_id)
        THEN Raised(ValueError("incident_id cannot be empty"), <<>>, <<>>)
        ELSE IF remote.raises
        THEN HandleApiError(remote.exc, call, <<>>)
        ELSE IF "incident" \notin DOMAIN remote.value
        THEN HandleApiError(RuntimeError("Failed to fetch or process incident"),
                            call, <<>>)
        ELSE Respond(ApiResponseHandler(
                         MetaV(ParseIncident(remote.value["incident"])),
                         NIncident, RESPONSE_LIMIT, None),
                     call)

\* a variant that puts x before the elements of its own score
RECURSIVE InsertBeforeEqualScores(_, _)
InsertBeforeEqualScores(sorted, x) ==
    IF Len(sorted) = 0 THEN <<x>>
    ELSE IF sorted[1].similarity_score > x.similarity_score
    THEN <<sorted[1]>> \o InsertBeforeEqualScores(Tail(sorted), x)
    ELSE <<x>> \o sorted

\* list.sort(key=similarity_score, reverse=True): stable, so x goes behind
\* every element whose score is at least its own
RECURSIVE InsertByScore(_, _)
InsertByScore(sorted, x) ==
    IF Len(sorted) = 0 THEN <<x>>
    ELSE IF sorted[1].similarity_score >= x.similarity_score
    THEN <<sorted[1]>> \o InsertByScore(Tail(sorted), x)
    ELSE <<x>> \o sorted

RECURSIVE SortByScore(_)
SortByScore(items) ==
    IF Len(items) = 0 THEN <<>>
    ELSE InsertByScore(SortByScore(SubSeq(items, 1, Len(items) - 1)),
                       items[Len(items)])

\* {**parse_incident(item.get('incident', {})), 'similarity_score': score}
PastIncident(item) ==
    ("similarity_score" :> Get(item, "score", 0))
    @@ ParseIncident(Get(item, "incident", EmptyDict))

PastIncidents(past_incidents) ==
    [i \in 1..Len(past_incidents) |-> PastIncident(past_incidents[i])]

\* list_past_incidents
ListPastIncidents(incident_id, limit, total, remote) ==
    LET call == JGet(<<INCIDENTS_URL, Val(incident_id), "past_incidents">>,
                     [limit |-> limit, total |-> total])
    IN  IF Falsy(incident_id)
        THEN Raised(ValueError("incident_id cannot be empty"), <<>>, <<>>)
        ELSE IF remote.raises
        THEN HandleApiError(remote.exc, call, <<>>)
        ELSE IF "past_incidents" \notin DOMAIN remote.value
        THEN HandleApiError(RuntimeError("Response missing 'past_incidents' field"),
                            call, <<>>)
        ELSE Respond(ApiResponseHandler(
                         ListV(SortByScore(
                                   PastIncidents(remote.value["past_incidents"]))),
                         NIncidents, RESPONSE_LIMIT, None),
                     call)

\* an item of related_incidents that list_related_incidents can index
RelatedItemOk(item) == {"incident", "relationships"} \subseteq DOMAIN item

Relationship(rel) ==
    [relationship_type |-> IF Len(rel) > 0 THEN Some(rel[1].type) ELSE None,
     relationship_metadata |->
         IF Len(rel) > 0 THEN Some(rel[1].metadata) ELSE None]

RelatedIncident(item) ==
    Relationship(item["relationships"]) @@ ParseIncident(item["incident"])

RelatedIncidents(related_incidents) ==
    [i \in 1..Len(related_incidents) |-> RelatedIncident(related_incidents[i])]

\* the comprehension of list_related_incidents, then the response
RespondRelated(related_incidents, call) ==
    IF \E i \in 1..Len(related_incidents) : ~RelatedItemOk(related_incidents[i])
    THEN HandleApiError(KeyError("missing key"), call, <<>>)
    ELSE Respond(ApiResponseHandler(ListV(RelatedIncidents(related_incidents)),
                                    NIncidents, RESPONSE_LIMIT, None),
                 call)

\* list_related_incidents
ListRelatedIncidents(incident_id, remote) ==
    LET call == JGet(<<INCIDENTS_URL, Val(incident_id), "related_incidents">>,
                     EmptyDict)
    IN  IF Falsy(incident_id)
        THEN Raised(ValueError("incident_id cannot be empty"), <<>>, <<>>)
        ELSE IF remote.raises
        THEN HandleApiError(remote.exc, call, <<>>)
        ELSE IF "related_incidents" \notin DOMAIN remote.value
        THEN HandleApiError(
                 RuntimeError("Response missing 'related_incidents' field"),
                 call, <<>>)
        ELSE RespondRelated(remote.value["related_incidents"], call)

-----------------------------------------------------------------------------
(* services.py *)

SERVICES_URL == "/services"

ListServicesMessage(e) ==
    [fmt |-> "Exception directly caught in list_services: {type} - {msg}",
     type |-> e.type, msg |-> e.msg]

\* the dictionary list_services returns from its except clause
ListServicesFailure(e) ==
    [t |-> "envelope",
     v |-> (KError :> ErrV([code |-> "LIST_SERVICES_EXCEPTION",
                            message |-> ListServicesMessage(e)]))
           @@ (NServices :> ListV(<<>>))
           @@ (KMetadata :>
                 MetaV([count |-> 0,
                        description |-> [fmt |-> "An error occurred within list_services while fetching services."],
                        original_error_type |-> e.type,
                        original_error_message |-> e.msg]))]

ServiceParams(team_ids, query, limit) ==
    (IF NonEmpty(team_ids) THEN "team_ids[]" :> Val(team_ids) ELSE EmptyDict)
    @@ (IF ~Falsy(query) THEN "query" :> Val(query) ELSE EmptyDict)
    @@ (IF ~IsNone(limit) /\ Val(limit) # 0 THEN "limit" :> Val(limit)
        ELSE EmptyDict)

ParseServices(response) ==
    [i \in 1..Len(response) |-> ParseService(response[i])]

\* the tail of list_services: its except clause returns a dictionary
RespondListServices(h, call) ==
    IF h.raises
    THEN Returned(ListServicesFailure(h.exc), call,
                  <<ListServicesMessage(h.exc)>>)
    ELSE HandlerOutcome(h, call, <<>>)

\* list_services.  remote.value is None or Some(list)
ListServices(team_ids, query, limit, remote) ==
    LET call == <<RemoteCall("list_all", SERVICES_URL,
                             ServiceParams(team_ids, query, limit))>>
    IN  IF ~IsNone(team_ids) /\ Len(Val(team_ids)) = 0
        THEN Raised(ValueError("team_ids cannot be an empty list"), <<>>, <<>>)
        ELSE IF remote.raises
        THEN Returned(ListServicesFailure(remote.exc), call,
                      <<ListServicesMessage(remote.exc)>>)
        ELSE RespondListServices(
                 ApiResponseHandler(
                     ListV(ParseServices(IF IsNone(remote.value) THEN <<>>
                                         ELSE Val(remote.value))),
                     NServices, RESPONSE_LIMIT, None),
                 call)

\* the escalation policy fields show_service adds to the parsed service
EscalationPolicy(ep) ==
    [escalation_policy_id |->
         IF IsNone(ep) THEN None ELSE GetOpt(Val(ep), "id"),
     escalation_policy_summary |->
         IF IsNone(ep) THEN None ELSE GetOpt(Val(ep), "summary")]

WithEscalationPolicy(parsed, service_data) ==
    EscalationPolicy(GetOpt(service_data, "escalation_policy")) @@ parsed

\* show_service
ShowService(service_id, remote) ==
    LET call == JGet(<<SERVICES_URL, Val(service_id)>>, EmptyDict)
    IN  IF Falsy(service_id)
        THEN Raised(ValueError("service_id cannot be empty"), <<>>, <<>>)
        ELSE IF remote.raises
        THEN HandleApiError(remote.exc, call, <<>>)
        ELSE IF "service" \notin DOMAIN remote.value
        THEN HandleApiError(RuntimeError("Response missing 'service' field"),
                            call, <<>>)
        ELSE Respond(ApiResponseHandler(
                         MetaV(WithEscalationPolicy(
                                   ParseService(remote.value["service"]),
                                   remote.value["service"])),
                         NService, RESPONSE_LIMIT, None),
                     call)

\* [service['id'] for service in parsed_response]
ServiceIds(parsed_response, call) ==
    IF \E i \in 1..Len(parsed_response) : "id" \notin DOMAIN parsed_response[i]
    THEN HandleApiError(KeyError("id"), call, <<>>)
    ELSE Returned(ListV([i \in 1..Len(parsed_response) |->
                             parsed_response[i]["id"]]),
                  call, <<>>)

\* fetch_service_ids
FetchServiceIds(team_ids, remote) ==
    LET call == <<RemoteCall("list_all", SERVICES_URL,
                             "team_ids[]" :> Val(team_ids))>>
    IN  IF ~NonEmpty(team_ids)
        THEN Raised(ValueError("Team IDs must be specified"), <<>>, <<>>)
        ELSE IF remote.raises
        THEN HandleApiError(remote.exc, call, <<>>)
        ELSE ServiceIds(ParseServices(remote.value), call)

-----------------------------------------------------------------------------
(* datadog_mcp_server/server.py *)

DictV(d) == [t |-> "dict", v |-> d]

ErrorDict(message) == DictV([error |-> message])

\* get_monitor_details: one call of api.Monitor.get
GetMonitorDetails(monitor_id, remote, c) ==
    LET call == Append(c, RemoteCall("Monitor.get", monitor_id, EmptyDict))
    IN  IF remote.raises
        THEN Returned(ErrorDict([fmt |-> "{msg}", msg |-> remote.exc.msg]),
                      call, <<>>)
        ELSE Returned(DictV(remote.value), call, <<>>)

\* not search_results or not search_results.get('monitors')
NoMonitors(search_results) ==
    \/ IsNone(search_results)
    \/ DOMAIN Val(search_results) = {}
    \/ "monitors" \notin DOMAIN Val(search_results)
    \/ Len(Val(search_results)["monitors"]) = 0

MatchEntry(m) == [id |-> GetOpt(m, "id"), name |-> GetOpt(m, "name")]

\* get_monitor_details_by_name once the exact matches are known
ByExactMatches(monitor_name, exact_matches, get, call) ==
    IF Len(exact_matches) = 0
    THEN Returned(ErrorDict([fmt |-> "No monitor found with exact name '{name}'.",
                             name |-> monitor_name]),
                  call, <<>>)
    ELSE IF Len(exact_matches) > 1
    THEN Returned(
             DictV([error |-> [fmt |-> "Multiple monitors found with the name '{name}'. Please use the monitor ID instead.",
                               name |-> monitor_name],
                    matches |-> [i \in 1..Len(exact_matches) |->
                                     MatchEntry(exact_matches[i])]]),
             call, <<>>)
    ELSE IF IsNone(GetOpt(exact_matches[1], "id"))
    THEN Returned(ErrorDict([fmt |-> "Found monitor '{name}' but it does not have an ID.",
                             name |-> monitor_name]),
                  call, <<>>)
    ELSE GetMonitorDetails(exact_matches[1]["id"], get, call)

\* a variant that takes every monitor the search returned
ExactMatchesUnfiltered(monitors, monitor_name) == monitors

\* [m for m in monitors if m.get('name') == monitor_name]
ExactMatches(monitors, monitor_name) ==
    SelectSeq(monitors, LAMBDA m : GetOpt(m, "name") = Some(monitor_name))

\* get_monitor_details_by_name: api.Monitor.search, then get_monitor_details
GetMonitorDetailsByName(monitor_name, search, get) ==
    LET call == <<RemoteCall("Monitor.search", monitor_name, EmptyDict)>>
    IN  IF search.raises
        THEN Returned(ErrorDict([fmt |-> "Failed to get monitor by name '{name}': {msg}",
                                 name |-> monitor_name, msg |-> search.exc.msg]),
                      call, <<>>)
        ELSE IF NoMonitors(search.value)
        THEN Returned(ErrorDict([fmt |-> "No monitor found with name '{name}'",
                                 name |-> monitor_name]),
                      call, <<>>)
        ELSE ByExactMatches(monitor_name,
                            ExactMatches(Val(search.value)["monitors"],
                                         monitor_name),
                            get, call)

\* needle in haystack, for strings
Contains(haystack, needle) ==
    \E i \in 1..(Len(haystack) - Len(needle) + 1) :
        SubSeq(haystack, i, i + Len(needle) - 1) = needle

\* the entry list_dashboards returns for a matching dashboard
DashboardEntry(dash) ==
    [id |-> IF "id_str" \in DOMAIN dash THEN Some(dash["id_str"])
            ELSE GetOpt(dash, "id"),
     title |-> Get(dash, "title", <<>>),
     url |-> GetOpt(dash, "url")]

\* the dashboards whose title contains the query, whatever the case
MatchedDashboards(dashboards, query) ==
    SelectSeq(dashboards,
              LAMBDA dash : Contains(LowerStr(Get(dash, "title", <<>>)),
                                     LowerStr(query)))

DashboardEntries(matched) ==
    [i \in 1..Len(matched) |-> DashboardEntry(matched[i])]

\* list_dashboards: one call of api.Dashboard.get_all
ListDashboards(query, remote) ==
    LET call == <<RemoteCall("Dashboard.get_all", "", EmptyDict)>>
    IN  IF remote.raises
        THEN Returned(ErrorDict([fmt |-> "Failed to list Datadog dashboards: {msg}",
                                 msg |-> remote.exc.msg]),
                      call, <<>>)
        ELSE IF "dashboards" \notin DOMAIN remote.value
        THEN Returned(ErrorDict([fmt |-> "Unexpected response from Datadog API: 'dashboards' key missing."]),
                      call, <<>>)
        ELSE Returned(ListV(DashboardEntries(
                                MatchedDashboards(remote.value["dashboards"],
                                                  query))),
                      call, <<>>)

-----------------------------------------------------------------------------
(* Inputs: the arguments of a call and what the remote API answers *)

MaxResults == 2
MaxLimit == 2
MaxIncidents == 2
MaxPage == 2

Records == {[id |-> 1], [id |-> 2]}

ResourceNames ==
    { <<>>, <<" ">>, <<" ", "\t">>, <<"\n">>,
      NIncidents, NIncident, NServices, NService,
      <<" ", "x", " ">>, <<"a", " ", "b">>,
      KMetadata, KError }

\* a list of n equal records
Bulk(r, n) == [i \in 1..n |-> r]

\* lists at the response limit and one past it
BulkLengths == {RESPONSE_LIMIT, RESPONSE_LIMIT + 1}

ResultInputs ==
    {[t |-> "dict", v |-> r] : r \in Records}
    \cup {[t |-> "list", v |-> l] : l \in SeqsUpTo(Records, MaxResults)}
    \cup {[t |-> "list", v |-> Bulk([id |-> 1], n)] : n \in BulkLengths}

LimitInputs == (0..MaxLimit) \cup {RESPONSE_LIMIT}

CallerText == [fmt |-> "caller", n |-> 0, name |-> <<>>]

MetadataInputs ==
    { None,
      Some(EmptyDict),
      Some([owner |-> 3]),
      Some([count |-> 7]),
      Some([count |-> 7, description |-> CallerText, owner |-> 3]) }

TNoDataX == <<"N", "o", " ", "D", "a", "t", "a", ":", " ", "x">>

TitleVariants ==
    { <<"n", "o", " ", "d", "a", "t", "a", ":", " ", "x">>,
      <<"N", "o", " ", "D", "a", "t", "a">>,
      <<"N", "o", " ", "D", "a", "t", "a", ":">>,
      <<" ", "N", "o", " ", "D", "a", "t", "a", ":", " ", "x">>,
      <<"x", " ", "N", "o", " ", "D", "a", "t", "a", ":">>,
      <<"N", "o", " ", "D", "a", "t", "a", " ", ":", "x">>,
      <<>> }

StatusInputs ==
    {None, Some("triggered"), Some("acknowledged"), Some("resolved"),
     Some("merged")}

ChangeByInputs ==
    {None, Some([summary |-> "x"]), Some([type |-> "service_reference"]),
     Some([type |-> "user_reference"])}

\* a remote incident record with the given optional fields
Incident(status, last_status_change_by, title) ==
    Field("status", status)
    @@ Field("last_status_change_by", last_status_change_by)
    @@ Field("title", title)
    @@ ("urgency" :> "high")

IncidentPool ==
    {Incident(st, cb, ti) :
         st \in StatusInputs, cb \in ChangeByInputs, ti \in {None, Some(TNoDataX)}}
    \cup {Incident(Some("triggered"), None, Some(ti)) : ti \in TitleVariants}

\* incidents of a remote page
PageIncidents ==
    { Incident(Some("resolved"), Some([type |-> "service_reference"]),
               Some(TNoDataX)),
      Incident(Some("triggered"), None, Some(<<"c", "p", "u">>)),
      Incident(Some("merged"), Some([type |-> "service_reference"]), None) }

\* strings around the relative-time pattern
RelativeInputs ==
    { <<"2", " ", "h", "o", "u", "r", "s", " ", "a", "g", "o">>,
      <<"3", " ", "M", "i", "n", "u", "t", "e", "s", " ", "A", "g", "o">>,
      <<"0", " ", "h", "o", "u", "r", " ", "a", "g", "o">>,
      <<"1", " ", " ", "m", "i", "n", "u", "t", "e", "\t", "a", "g", "o">>,
      <<"9", "0", " ", "m", "i", "n", "u", "t", "e", "s", " ", "a", "g", "o">>,
      <<"2", " ", "H", "O", "U", "R", "S", " ", "A", "G", "O">>,
      <<"0", "0", "0", "7", " ", "m", "i", "n", "u", "t", "e", "s", " ", "a", "g", "o">>,
      <<"1", "7", "8", "0", "0", "0", "0", "0", " ", "h", "o", "u", "r", "s", " ", "a", "g", "o">>,
      <<"n", "e", "x", "t", " ", "t", "u", "e", "s", "d", "a", "y">>,
      <<"2", "h", "o", "u", "r", "s", " ", "a", "g", "o">>,
      <<"2", " ", "h", "o", "u", "r", "s", " ", "a", "g", "o", " ">>,
      <<" ", "2", " ", "h", "o", "u", "r", "s", " ", "a", "g", "o">>,
      <<"-", "2", " ", "h", "o", "u", "r", "s", " ", "a", "g", "o">>,
      <<"2", " ", "d", "a", "y", "s", " ", "a", "g", "o">>,
      <<"2", " ", "h", "o", "u", "r", "s", "s", " ", "a", "g", "o">>,
      <<"2", " ", "h", "o", "u", "r", "s">>,
      <<"h", "o", "u", "r", "s", " ", "a", "g", "o">>,
      <<"2", " ", "h", "o", "u", "r", "s", " ", "a", "g", "o", "o">>,
      <<"2", " ", "h", "o", "u", "r", "s", "a", "g", "o">> }

\* strings around the ISO 8601 format
TimestampInputs ==
    { <<"2", "0", "2", "4", "-", "0", "1", "-", "0", "1", "T", "0", "0", ":", "0", "0", ":", "0", "0", "Z">>,
      <<"2", "0", "2", "4", "-", "0", "1", "-", "0", "1">>,
      <<"2", "0", "2", "4", "-", "0", "1", "-", "0", "1", " ", "1", "0", ":", "0", "0">>,
      <<"2", "0", "2", "4", "-", "0", "1", "-", "0", "1", "T", "1", "0", ":", "0", "0", ":", "0", "0", "-", "0", "7", ":", "0", "0">>,
      <<"2", "0", "2", "4", "-", "0", "1", "-", "0", "1", "T", "1", "0", ":", "0", "0", ":", "0", "0", ".", "1", "2", "3", "4", "5", "6", "+", "0", "5", ":", "3", "0">>,
      <<"2", "0", "2", "4", "-", "0", "2", "-", "2", "9", "T", "2", "3", ":", "5", "9", ":", "5", "9", "Z">>,
      <<"2", "0", "2", "4", "-", "0", "2", "-", "3", "0">>,
      <<"2", "0", "2", "4", "-", "1", "3", "-", "0", "1", "T", "0", "0", ":", "0", "0", ":", "0", "0", "Z">>,
      <<"2", "0", "2", "4", "-", "0", "1", "-", "0", "1", "T", "2", "5", ":", "0", "0">>,
      <<"2", "0", "2", "4", "-", "0", "1", "-", "0", "1", "T", "1", "0", ":", "0", "0", ":", "0">>,
      <<"2", "0", "2", "4", "-", "0", "1", "-", "0", "1", "T">>,
      <<"2", "0", "2", "3", "-", "0", "2", "-", "2", "9">>,
      <<"Z">>,
      <<"2", "0", "2", "4", "-", "0", "1", "-", "0", "1", "T", "1", "0", ":", "0", "0", ":", "0", "0", "Z", "Z">>,
      <<" ">> }

TimeInputs ==
    {None, Some(<<>>)} \cup {Some(s) : s \in RelativeInputs \cup TimestampInputs}

\* datetime.now(timezone.utc): minutes from 1970-01-01T00:00, second, microsecond
Nows ==
    { [min |-> DaysFromCivil(2026, 11, 4) * MinutesPerDay + 478,
       sec |-> 0, micro |-> 0],
      [min |-> DaysFromCivil(2024, 3, 1) * MinutesPerDay + 330,
       sec |-> 59, micro |-> 123456],
      [min |-> DaysFromCivil(2025, 1, 1) * MinutesPerDay,
       sec |-> 7, micro |-> 0] }

Now0 == CHOOSE n \in Nows : n.micro # 0

T2HoursAgo == <<"2", " ", "h", "o", "u", "r", "s", " ", "a", "g", "o">>
T3MinutesAgo ==
    <<"3", " ", "M", "i", "n", "u", "t", "e", "s", " ", "A", "g", "o">>
TNextTuesday ==
    <<"n", "e", "x", "t", " ", "t", "u", "e", "s", "d", "a", "y">>
TAbsolute ==
    <<"2", "0", "2", "4", "-", "0", "1", "-", "0", "1", "T",
      "0", "0", ":", "0", "0", ":", "0", "0", "Z">>
TBadMonth ==
    <<"2", "0", "2", "4", "-", "1", "3", "-", "0", "1", "T",
      "0", "0", ":", "0", "0", ":", "0", "0", "Z">>
THugeHours ==
    <<"1", "7", "8", "0", "0", "0", "0", "0", " ",
      "h", "o", "u", "r", "s", " ", "a", "g", "o">>

StatusesInputs ==
    { None,
      Some([t |-> "list", v |-> <<>>]),
      Some([t |-> "list", v |-> <<"resolved", "triggered">>]),
      Some([t |-> "list", v |-> <<"resolved", "open">>]),
      Some([t |-> "list", v |-> <<"Triggered">>]),
      Some([t |-> "tuple", v |-> <<"acknowledged">>]) }

UrgenciesInputs ==
    { None,
      Some([t |-> "list", v |-> <<"high">>]),
      Some([t |-> "list", v |-> <<"low", "critical">>]) }

SinceInputs ==
    {None, Some(<<>>), Some(T2HoursAgo), Some(TAbsolute), Some(TNextTuesday),
     Some(THugeHours)}

UntilInputs == {None, Some(T3MinutesAgo), Some(TBadMonth)}

\* service_ids, team_ids and limit, which only travel into the request
FilterInputs ==
    { [service_ids |-> None, team_ids |-> None, limit |-> None],
      [service_ids |-> Some(<<"PSVC1">>), team_ids |-> Some(<<>>),
       limit |-> Some(0)],
      [service_ids |-> None, team_ids |-> Some(<<"PTEAM1">>),
       limit |-> Some(5)] }

RemoteFailures == {RemoteRaises(e) : e \in RemoteErrors}

\* what pd_client.list_all(INCIDENTS_URL) may do
IncidentListRemotes ==
    RemoteFailures
    \cup {RemoteReturns(l) : l \in SeqsUpTo(PageIncidents, MaxPage)}
    \cup {RemoteReturns(Bulk(Incident(Some("resolved"), None, None), n)) :
              n \in BulkLengths}

IdInputs == {None, Some(""), Some("Q1")}

\* what pd_client.jget(INCIDENTS_URL/id) may do
IncidentRemotes ==
    RemoteFailures
    \cup {RemoteReturns([incident |-> r]) : r \in PageIncidents}
    \cup {RemoteReturns([message |-> "gone"])}

PastItems ==
    { [incident |-> [id |-> "A", title |-> <<"a">>], score |-> 3],
      [incident |-> [id |-> "B", title |-> <<"b">>], score |-> 5],
      [incident |-> [id |-> "C", title |-> <<"c">>], score |-> 3],
      [incident |-> [id |-> "D", title |-> <<"d">>]],
      [score |-> 1] }

\* what pd_client.jget(.../past_incidents) may do
PastIncidentRemotes ==
    RemoteFailures
    \cup {RemoteReturns([past_incidents |-> l]) : l \in SeqsUpTo(PastItems, MaxPage)}
    \cup {RemoteReturns([total |-> 0])}

RelatedItems ==
    { [incident |-> [id |-> "A"],
       relationships |-> <<[type |-> "machine_learning_inferred",
                            metadata |-> [grouping_classification |-> "similar"]]>>],
      [incident |-> [id |-> "B"], relationships |-> <<>>],
      [incident |-> [id |-> "C"]] }

\* what pd_client.jget(.../related_incidents) may do
RelatedIncidentRemotes ==
    RemoteFailures
    \cup {RemoteReturns([related_incidents |-> l]) :
              l \in SeqsUpTo(RelatedItems, MaxPage)}
    \cup {RemoteReturns([message |-> "gone"])}

ServiceRecords ==
    { [id |-> "S1", name |-> "api",
       escalation_policy |-> [id |-> "EP1", summary |-> "primary"]],
      [id |-> "S2", name |-> "db", escalation_policy |-> [id |-> "EP2"]],
      [name |-> "web"] }

TeamIdInputs == {None, Some(<<>>), Some(<<"PTEAM1">>)}
QueryInputs == {None, Some(""), Some("api")}
ServiceLimitInputs == {None, Some(0), Some(5)}

\* what pd_client.list_all(SERVICES_URL) may do, for list_services
ServiceListRemotes ==
    RemoteFailures
    \cup {RemoteReturns(None)}
    \cup {RemoteReturns(Some(l)) : l \in SeqsUpTo(ServiceRecords, MaxPage)}
    \cup {RemoteReturns(Some(Bulk([id |-> "S1", name |-> "api"], n))) :
              n \in BulkLengths}

\* what pd_client.list_all(SERVICES_URL) may do, for fetch_service_ids
ServiceIdRemotes ==
    RemoteFailures
    \cup {RemoteReturns(l) : l \in SeqsUpTo(ServiceRecords, MaxPage)}

\* what pd_client.jget(SERVICES_URL/id) may do
ServiceRemotes ==
    RemoteFailures
    \cup {RemoteReturns([service |-> r]) : r \in ServiceRecords}
    \cup {RemoteReturns([message |-> "gone"])}

Monitors ==
    { [id |-> 1, name |-> "cpu"], [id |-> 2, name |-> "cpu"],
      [id |-> 3, name |-> "cpu high"], [name |-> "cpu"] }

MonitorNames == {"cpu", "disk"}

\* what api.Monitor.search may do
SearchRemotes ==
    RemoteFailures
    \cup {RemoteReturns(None), RemoteReturns(Some(EmptyDict)),
          RemoteReturns(Some([counts |-> 0]))}
    \cup {RemoteReturns(Some([monitors |-> l])) : l \in SeqsUpTo(Monitors, MaxPage)}

\* what api.Monitor.get may do
MonitorRemotes ==
    RemoteFailures
    \cup {RemoteReturns([id |-> 1, name |-> "cpu", query |-> "avg(cpu) > 90"])}

Dashboards ==
    { [id |-> "d1", title |-> <<"C", "P", "U", " ", "L", "o", "a", "d">>,
       url |-> "/dashboard/d1"],
      [id |-> "d2", id_str |-> "dash-2", title |-> <<"d", "i", "s", "k">>],
      [id |-> "d3"] }

DashboardQueries == {<<>>, <<"c", "p", "u">>, <<"D", "i", "s", "k">>, <<"x">>}

\* what api.Dashboard.get_all may do
DashboardRemotes ==
    RemoteFailures
    \cup {RemoteReturns([dashboards |-> l]) : l \in SeqsUpTo(Dashboards, MaxPage)}
    \cup {RemoteReturns([errors |-> "Forbidden"])}

-----------------------------------------------------------------------------
(* Actions: one whole invocation each *)

\* what a call leaves for its caller.  A call starts only when no invocation
\* is in progress (op = "none")
Finish(name, a, o) ==
    /\ op' = name
    /\ args' = a
    /\ outcome' = o.outcome
    /\ result' = o.result
    /\ exc' = o.exc
    /\ calls' = o.calls
    /\ log' = o.log

CallApiResponseHandler ==
    /\ op = "none"
    /\ \E results \in ResultInputs, resource_name \in ResourceNames,
       limit \in LimitInputs, additional_metadata \in MetadataInputs :
        Finish("api_response_handler",
               [results |-> results, resource_name |-> resource_name,
                limit |-> limit, additional_metadata |-> additional_metadata,
                additional_metadata_after |->
                    CallerMetadataAfter(additional_metadata)],
               HandlerOutcome(
                   ApiResponseHandler(results, resource_name, limit,
                                      additional_metadata),
                   <<>>, <<>>))

CallValidateIso8601Timestamp ==
    /\ op = "none"
    /\ \E timestamp \in RelativeInputs \cup TimestampInputs :
        Finish("validate_iso8601_timestamp",
               [timestamp |-> timestamp],
               IF ValidateIso8601Timestamp(timestamp)
               THEN Returned(NoResult, <<>>, <<>>)
               ELSE Raised(ValidationError("Invalid ISO8601 timestamp"),
                           <<>>, <<>>))

CallTryConvertRelativeTime ==
    /\ op = "none"
    /\ \E time_param_value \in TimeInputs, now \in Nows :
        Finish("try_convert_relative_time_to_pdt_iso",
               [time_param_value |-> time_param_value, now |-> now],
               LET r == TryConvertRelativeTimeToPdtIso(time_param_value, now)
               IN  IF r.raises THEN Raised(OverflowError, <<>>, <<>>)
                   ELSE Returned([t |-> "optional", v |-> r.value], <<>>, <<>>))

CallCalculateIncidentMetadata ==
    /\ op = "none"
    /\ \E incidents \in SeqsUpTo(IncidentPool, MaxIncidents) :
        Finish("_calculate_incident_metadata",
               [incidents |-> incidents],
               Returned(DictV(CalculateIncidentMetadata(incidents)),
                        <<>>, <<>>))

CallListIncidents ==
    /\ op = "none"
    /\ \E f \in FilterInputs, statuses \in StatusesInputs,
       urgencies \in UrgenciesInputs, since \in SinceInputs,
       until \in UntilInputs, remote \in IncidentListRemotes :
        Finish("list_incidents",
               [service_ids |-> f.service_ids, team_ids |-> f.team_ids,
                statuses |-> statuses, urgencies |-> urgencies,
                since |-> since, until |-> until, limit |-> f.limit,
                now |-> Now0, remote |-> remote],
               ListIncidents(f.service_ids, f.team_ids, statuses, urgencies,
                             since, until, f.limit, Now0, remote))

CallShowIncident ==
    /\ op = "none"
    /\ \E incident_id \in IdInputs, remote \in IncidentRemotes :
        Finish("show_incident",
               [incident_id |-> incident_id, remote |-> remote],
               ShowIncident(incident_id, remote))

CallListPastIncidents ==
    /\ op = "none"
    /\ \E incident_id \in IdInputs, limit \in {None, Some(5)},
       total \in {None, Some(TRUE)}, remote \in PastIncidentRemotes :
        Finish("list_past_incidents",
               [incident_id |-> incident_id, limit |-> limit, total |-> total,
                remote |-> remote],
               ListPastIncidents(incident_id, limit, total, remote))

CallListRelatedIncidents ==
    /\ op = "none"
    /\ \E incident_id \in IdInputs, remote \in RelatedIncidentRemotes :
        Finish("list_related_incidents",
               [incident_id |-> incident_id, remote |-> remote],
               ListRelatedIncidents(incident_id, remote))

CallListServices ==
    /\ op = "none"
    /\ \E team_ids \in TeamIdInputs, query \in QueryInputs,
       limit \in ServiceLimitInputs, remote \in ServiceListRemotes :
        Finish("list_services",
               [team_ids |-> team_ids, query |-> query, limit |-> limit,
                remote |-> remote],
               ListServices(team_ids, query, limit, remote))

CallShowService ==
    /\ op = "none"
    /\ \E service_id \in IdInputs, remote \in ServiceRemotes :
        Finish("show_service",
               [service_id |-> service_id, remote |-> remote],
               ShowService(service_id, remote))

CallFetchServiceIds ==
    /\ op = "none"
    /\ \E team_ids \in TeamIdInputs, remote \in ServiceIdRemotes :
        Finish("fetch_service_ids",
               [team_ids |-> team_ids, remote |-> remote],
               FetchServiceIds(team_ids, remote))

CallGetMonitorDetails ==
    /\ op = "none"
    /\ \E monitor_id \in 1..2, remote \in MonitorRemotes :
        Finish("get_monitor_details",
               [monitor_id |-> monitor_id, remote |-> remote],
               GetMonitorDetails(monitor_id, remote, <<>>))

CallGetMonitorDetailsByName ==
    /\ op = "none"
    /\ \E monitor_name \in MonitorNames, search \in SearchRemotes,
       get \in MonitorRemotes :
        Finish("get_monitor_details_by_name",
               [monitor_name |-> monitor_name, search |-> search, get |-> get],
               GetMonitorDetailsByName(monitor_name, search, get))

CallListDashboards ==
    /\ op = "none"
    /\ \E query \in DashboardQueries, remote \in DashboardRemotes :
        Finish("list_dashboards",
               [query |-> query, remote |-> remote],
               ListDashboards(query, remote))

\* the response has been handed to the caller; the request's values are dropped
Done ==
    /\ op # "none"
    /\ op' = "none"
    /\ args' = <<>>
    /\ outcome' = "none"
    /\ result' = NoResult
    /\ exc' = NoExc
    /\ calls' = <<>>
    /\ log' = <<>>

Init ==
    /\ op = "none"
    /\ args = <<>>
    /\ outcome = "none"
    /\ result = NoResult
    /\ exc = NoExc
    /\ calls = <<>>
    /\ log = <<>>

Next ==
    \/ CallApiResponseHandler
    \/ CallValidateIso8601Timestamp
    \/ CallTryConvertRelativeTime
    \/ CallCalculateIncidentMetadata
    \/ CallListIncidents
    \/ CallShowIncident
    \/ CallListPastIncidents
    \/ CallListRelatedIncidents
    \/ CallListServices
    \/ CallShowService
    \/ CallFetchServiceIds
    \/ CallGetMonitorDetails
    \/ CallGetMonitorDetailsByName
    \/ CallListDashboards
    \/ Done

Spec == Init /\ [][Next]_vars

-----------------------------------------------------------------------------
(* Properties *)

PagerDutyEnvelopeTools ==
    {"list_incidents", "show_incident", "list_past_incidents",
     "list_related_incidents", "list_services", "show_service"}

PagerDutyTools == PagerDutyEnvelopeTools \cup {"fetch_service_ids"}

\* the key under which the call in progress returns its records
ResourceKey ==
    CASE op = "api_response_handler" -> args.resource_name
      [] op \in {"list_incidents", "list_past_incidents",
                 "list_related_incidents"} -> NIncidents
      [] op = "show_incident" -> NIncident
      [] op = "list_services" -> NServices
      [] op = "show_service" -> NService
      [] OTHER -> <<>>

ReturnsEnvelope ==
    /\ op \in PagerDutyEnvelopeTools \cup {"api_response_handler"}
    /\ outcome = "return"

\* empty or whitespace only
AllWhitespace(s) == \A i \in 1..Len(s) : s[i] \in Whitespace

\* env holds a metadata dictionary whose count is n
CountIs(env, n) ==
    /\ KMetadata \in DOMAIN env
    /\ env[KMetadata].t = "dict"
    /\ "count" \in DOMAIN env[KMetadata].v
    /\ env[KMetadata].v["count"] = n

\* env holds a list under key
HasList(env, key) == key \in DOMAIN env /\ env[key].t = "list"

WellFormed(env, key) ==
    IF KError \in DOMAIN env
    THEN ~HasList(env, key)
    ELSE HasList(env, key) /\ CountIs(env, Len(env[key].v))

\* C1: every envelope returned by api_response_handler and by the PagerDuty
\* tool functions either has the key 'error' and no records under the resource
\* key, or has no 'error' and a resource key whose list is as long as
\* metadata.count says.
C1_EnvelopeInvariant == ReturnsEnvelope => WellFormed(result.v, ResourceKey)

\* the calls of api_response_handler that C2 is about
WithinLimitCall ==
    /\ op = "api_response_handler"
    /\ ~AllWhitespace(args.resource_name)
    /\ args.results.t = "list"
    /\ Len(args.results.v) <= args.limit
    /\ IsNone(args.additional_metadata)

SuccessEnvelope(env, key, records) ==
    /\ KError \notin DOMAIN env
    /\ CountIs(env, Len(records))
    /\ HasList(env, key)
    /\ env[key].v = records

\* C2: for every non-blank resource_name and every list R with len(R) <= limit,
\* api_response_handler without additional_metadata returns an envelope with no
\* 'error' key, metadata.count = len(R) and R itself, in order, under the
\* resource key.
C2_WithinLimit ==
    WithinLimitCall =>
        /\ outcome = "return"
        /\ SuccessEnvelope(result.v, args.resource_name, args.results.v)

\* a resource name that is also a key of the envelope itself
Reserved(name) == name \in {KMetadata, KError}

\* C2, for the resource names that are not keys of the envelope: the statement
\* holds there.
C2_WithinLimitUnreservedName ==
    (WithinLimitCall /\ ~Reserved(args.resource_name)) =>
        /\ outcome = "return"
        /\ SuccessEnvelope(result.v, args.resource_name, args.results.v)

C2_UnreservedWitness ==
    /\ WithinLimitCall
    /\ ~Reserved(args.resource_name)
    /\ Len(args.results.v) = args.limit
    /\ args.limit = MaxLimit
    /\ outcome = "return"

\* the calls of api_response_handler whose results outnumber the limit
OverLimitCall ==
    /\ op = "api_response_handler"
    /\ Len(AsList(args.results)) > args.limit

\* the envelope of an overflow: metadata with count and description only, the
\* error, and nothing else
OverflowEnvelope(env, n) ==
    /\ DOMAIN env = {KMetadata, KError}
    /\ env[KError].t = "error"
    /\ env[KError].v.code = "LIMIT_EXCEEDED"
    /\ env[KMetadata].t = "dict"
    /\ DOMAIN env[KMetadata].v = {"count", "description"}
    /\ env[KMetadata].v["count"] = n

\* C3 as stated: whenever len(results) > limit, api_response_handler does not
\* raise and returns the overflow envelope, with no resource key and nothing
\* of additional_metadata.
C3_LimitExceededAlways ==
    OverLimitCall =>
        /\ outcome = "return"
        /\ OverflowEnvelope(result.v, Len(AsList(args.results)))

\* C3 amended: whenever len(results) > limit and resource_name is not blank,
\* api_response_handler does not raise; the envelope has exactly the keys
\* 'metadata' (count = len(results) and description only, nothing of
\* additional_metadata) and 'error' (code LIMIT_EXCEEDED), so the records are
\* under no key.
C3_LimitExceeded ==
    (OverLimitCall /\ ~AllWhitespace(args.resource_name)) =>
        /\ outcome = "return"
        /\ OverflowEnvelope(result.v, Len(AsList(args.results)))

C3_Witness ==
    /\ OverLimitCall
    /\ ~AllWhitespace(args.resource_name)
    /\ Truthy(args.additional_metadata)
    /\ Len(AsList(args.results)) = RESPONSE_LIMIT + 1
    /\ outcome = "return"

\* the remote client was called and raised
RemoteRaised ==
    /\ op \in PagerDutyTools
    /\ Len(calls) >= 1
    /\ args.remote.raises

\* C4: when the remote client call of a PagerDuty tool function raises, that
\* same exception is logged and propagates unchanged to the caller; no
\* envelope is returned in its place.
C4_UpstreamErrorPropagates ==
    RemoteRaised =>
        /\ outcome = "raise"
        /\ exc = args.remote.exc
        /\ log = <<ErrorMessage(args.remote.exc)>>

\* C4, for the tool functions other than list_services: the statement holds
\* there.
C4_PropagatesOutsideListServices ==
    (RemoteRaised /\ op # "list_services") =>
        /\ outcome = "raise"
        /\ exc = args.remote.exc
        /\ log = <<ErrorMessage(args.remote.exc)>>

\* C5: api_response_handler raises ValidationError whenever resource_name is
\* empty or whitespace only, whatever results, limit and additional_metadata
\* are (also when results outnumber the limit), and returns no envelope.
C5_BlankNameRaises ==
    (op = "api_response_handler" /\ AllWhitespace(args.resource_name)) =>
        /\ outcome = "raise"
        /\ exc.type = "ValidationError"
        /\ result = NoResult

C5_Witness ==
    /\ OverLimitCall
    /\ Len(args.resource_name) = 2
    /\ AllWhitespace(args.resource_name)
    /\ Truthy(args.additional_metadata)
    /\ outcome = "raise"

NamedMonitors ==
    {i \in 1..Len(Val(args.search.value)["monitors"]) :
         GetOpt(Val(args.search.value)["monitors"][i], "name")
             = Some(args.monitor_name)}

HasForeign(o, vocabulary) ==
    /\ ~IsNone(o)
    /\ \E i \in 1..Len(Val(o).v) : Val(o).v[i] \notin vocabulary

\* strings that are neither relative-time expressions nor ISO8601 timestamps
InvalidTimes == {Some(TNextTuesday), Some(TBadMonth)}

InvalidListIncidentsCall ==
    /\ op = "list_incidents"
    /\ \/ HasForeign(args.statuses, {"triggered", "acknowledged", "resolved"})
       \/ HasForeign(args.urgencies, {"high", "low"})
       \/ args.since \in InvalidTimes
       \/ args.until \in InvalidTimes

\* C7: a list_incidents call with a status outside {triggered, acknowledged,
\* resolved}, an urgency outside {high, low}, or a non-empty since or until
\* that is neither a relative-time expression nor an ISO8601 timestamp raises
\* ValueError or ValidationError, and the remote client is not called.
C7_InvalidArgumentsRaise ==
    InvalidListIncidentsCall =>
        /\ outcome = "raise"
        /\ exc.type \in {"ValueError", "ValidationError"}
        /\ calls = <<>>
        /\ log = <<>>

\* C7, but for the kind of the exception: every such call raises before the
\* remote client is called, and the exception is an OverflowError only when
\* since is a relative-time expression beyond the range of dates.
C7_InvalidArgumentsNeverReachRemote ==
    InvalidListIncidentsCall =>
        /\ outcome = "raise"
        /\ calls = <<>>
        /\ exc.type \in {"ValueError", "ValidationError", "OverflowError"}
        /\ exc.type = "OverflowError" => args.since = Some(THugeHours)

\* the incidents _calculate_incident_metadata was given
Incidents == args.incidents

IndicesWithStatus(st) ==
    {i \in 1..Len(Incidents) : GetOpt(Incidents[i], "status") = Some(st)}

\* C8: _calculate_incident_metadata returns status_counts with exactly the
\* keys triggered, acknowledged and resolved, each the number of incidents
\* with that status; an incident without status, or with another one, adds to
\* none of them and causes no error.
C8_StatusCounts ==
    op = "_calculate_incident_metadata" =>
        /\ outcome = "return"
        /\ DOMAIN result.v.status_counts
               = {"triggered", "acknowledged", "resolved"}
        /\ \A st \in {"triggered", "acknowledged", "resolved"} :
               result.v.status_counts[st] = Cardinality(IndicesWithStatus(st))

C8_Witness ==
    /\ op = "_calculate_incident_metadata"
    /\ Len(Incidents) = MaxIncidents
    /\ GetOpt(Incidents[1], "status") = Some("merged")
    /\ GetOpt(Incidents[MaxIncidents], "status") = None
    /\ outcome = "return"

C8_CountingWitness ==
    /\ op = "_calculate_incident_metadata"
    /\ Cardinality(IndicesWithStatus("triggered")) = 1
    /\ Cardinality(IndicesWithStatus("resolved")) = 1
    /\ outcome = "return"

ChangedByService(incident) ==
    /\ "last_status_change_by" \in DOMAIN incident
    /\ "type" \in DOMAIN incident["last_status_change_by"]
    /\ incident["last_status_change_by"]["type"] = "service_reference"

\* C9: autoresolve_count is the number of incidents with status 'resolved'
\* whose last_status_change_by.type is 'service_reference'; an incident
\* without last_status_change_by, or without its type, is not counted and
\* causes no error.
C9_AutoresolveCount ==
    op = "_calculate_incident_metadata" =>
        /\ outcome = "return"
        /\ result.v.autoresolve_count
               = Cardinality({i \in IndicesWithStatus("resolved") :
                                  ChangedByService(Incidents[i])})

C9_Witness ==
    /\ op = "_calculate_incident_metadata"
    /\ Len(Incidents) = MaxIncidents
    /\ \E i \in IndicesWithStatus("resolved") : ChangedByService(Incidents[i])
    /\ \E i \in IndicesWithStatus("triggered") : ChangedByService(Incidents[i])
    /\ outcome = "return"

C9_MissingWitness ==
    /\ op = "_calculate_incident_metadata"
    /\ \E i \in IndicesWithStatus("resolved") :
           "last_status_change_by" \notin DOMAIN Incidents[i]
    /\ \E i \in IndicesWithStatus("resolved") :
           /\ "last_status_change_by" \in DOMAIN Incidents[i]
           /\ "type" \notin DOMAIN Incidents[i]["last_status_change_by"]
    /\ outcome = "return"

TitleBegins(incident, prefix) ==
    /\ "title" \in DOMAIN incident
    /\ Len(incident["title"]) >= Len(prefix)
    /\ SubSeq(incident["title"], 1, Len(prefix)) = prefix

\* C10: no_data_count is the number of incidents whose title begins with the
\* exact, case-sensitive string 'No Data:'; an incident without title is not
\* counted and causes no error.
C10_NoDataCount ==
    op = "_calculate_incident_metadata" =>
        /\ outcome = "return"
        /\ result.v.no_data_count
               = Cardinality({i \in 1..Len(Incidents) :
                                  TitleBegins(Incidents[i],
                                              <<"N", "o", " ", "D", "a", "t",
                                                "a", ":">>)})

C10_Witness ==
    /\ op = "_calculate_incident_metadata"
    /\ Len(Incidents) = MaxIncidents
    /\ result.v.no_data_count = 1
    /\ \E i \in 1..Len(Incidents) :
           TitleBegins(Incidents[i],
                       <<"n", "o", " ", "d", "a", "t", "a", ":">>)
    /\ outcome = "return"

C10_MissingWitness ==
    /\ op = "_calculate_incident_metadata"
    /\ result.v.no_data_count = 1
    /\ \E i \in 1..Len(Incidents) : "title" \notin DOMAIN Incidents[i]
    /\ outcome = "return"

-----------------------------------------------------------------------------
(* Properties of the metadata, the time conversion and the lists *)

ZeroMetadata ==
    [status_counts |-> [triggered |-> 0, acknowledged |-> 0, resolved |-> 0],
     autoresolve_count |-> 0,
     no_data_count |-> 0]

\* no incident has a counted status, is resolved by a service, or has a
\* 'No Data:' title
NothingMatches ==
    /\ \A st \in {"triggered", "acknowledged", "resolved"} :
           IndicesWithStatus(st) = {}
    /\ \A i \in 1..Len(Incidents) :
           ~TitleBegins(Incidents[i],
                        <<"N", "o", " ", "D", "a", "t", "a", ":">>)

\* C11: _calculate_incident_metadata on no incidents raises nothing and
\* returns {status_counts: {triggered: 0, acknowledged: 0, resolved: 0},
\* autoresolve_count: 0, no_data_count: 0}, the value it also returns for
\* incidents none of which matches anything.
C11_EmptyMetadata ==
    (op = "_calculate_incident_metadata" /\ NothingMatches) =>
        /\ outcome = "return"
        /\ result.t = "dict"
        /\ result.v = ZeroMetadata

C11_Witness ==
    /\ op = "_calculate_incident_metadata"
    /\ Len(Incidents) = 0
    /\ outcome = "return"

C11_NoMatchWitness ==
    /\ op = "_calculate_incident_metadata"
    /\ Len(Incidents) = MaxIncidents
    /\ NothingMatches
    /\ outcome = "return"

\* the capital of a small letter
UpperOf(c) == UpperCase[CHOOSE i \in 1..Len(LowerCase) : LowerCase[i] = c]

\* the characters of s from position i on spell the word w, in either case
Spells(s, i, w) ==
    /\ i + Len(w) - 1 <= Len(s)
    /\ \A k \in 1..Len(w) : s[i + k - 1] \in {w[k], UpperOf(w[k])}

\* every character of s from position i to position j is in the class C
AllIn(s, i, j, C) == \A k \in i..j : s[k] \in C

\* s is, in full: nd digits, w1 whitespace characters, the unit u, an
\* optional 's' (p = 1), whitespace, 'ago'
SplitsAs(s, nd, w1, u, p) ==
    /\ Len(s) - 3 > nd + w1 + Len(u) + p
    /\ AllIn(s, 1, nd, {"0", "1", "2", "3", "4", "5", "6", "7", "8", "9"})
    /\ AllIn(s, nd + 1, nd + w1, {" ", "\t", "\n"})
    /\ Spells(s, nd + w1 + 1, u)
    /\ p = 1 => Spells(s, nd + w1 + Len(u) + 1, <<"s">>)
    /\ AllIn(s, nd + w1 + Len(u) + p + 1, Len(s) - 3, {" ", "\t", "\n"})
    /\ Spells(s, Len(s) - 2, <<"a", "g", "o">>)

\* s matches, in full and in either case, \d+\s+(hour|minute)s?\s+ago
IsRelativeExpression(s) ==
    \E nd \in 1..Len(s), w1 \in 1..Len(s), p \in {0, 1},
       u \in {<<"h", "o", "u", "r">>, <<"m", "i", "n", "u", "t", "e">>} :
        SplitsAs(s, nd, w1, u, p)

PassesThrough(o) == IsNone(o) \/ ~IsRelativeExpression(Val(o))

C12_ConvertedWitness ==
    /\ op = "try_convert_relative_time_to_pdt_iso"
    /\ args.time_param_value
           = Some(<<"1", " ", " ", "m", "i", "n", "u", "t", "e", "\t", "a", "g", "o">>)
    /\ outcome = "return"
    /\ result.v # args.time_param_value

Num(t, i, j) == IntOf(SubSeq(t, i, j))

\* the instant an ISO 8601 text YYYY-MM-DDTHH:MM:SS[.ffffff]-07:00 names: the
\* minutes of its wall clock, its seconds and its microseconds
ReadsAs(t, minutes, sec, micro) ==
    /\ Len(t) = (IF micro = 0 THEN 25 ELSE 32)
    /\ <<t[5], t[8], t[11], t[14], t[17]>> = <<"-", "-", "T", ":", ":">>
    /\ SubSeq(t, Len(t) - 5, Len(t)) = <<"-", "0", "7", ":", "0", "0">>
    /\ DaysFromCivil(Num(t, 1, 4), Num(t, 6, 7), Num(t, 9, 10)) * 1440
           + Num(t, 12, 13) * 60 + Num(t, 15, 16) = minutes
    /\ Num(t, 18, 19) = sec
    /\ micro # 0 => (t[20] = "." /\ Num(t, 21, 26) = micro)

\* the call returned the instant `minutes` before now, on the UTC-7 wall clock
ReturnsMinutesAgo(minutes) ==
    /\ outcome = "return"
    /\ ~IsNone(result.v)
    /\ ReadsAs(Val(result.v), args.now.min - minutes - 7 * 60,
               args.now.sec, args.now.micro)

MinutesOf(u) == IF u = <<"h", "o", "u", "r">> THEN 60 ELSE 1

Units == {<<"h", "o", "u", "r">>, <<"m", "i", "n", "u", "t", "e">>}

\* C13: for every expression "N hour(s) ago" or "N minute(s) ago" with
\* N >= 0, try_convert_relative_time_to_pdt_iso returns the instant 60 * N,
\* respectively N, minutes before now, written on the fixed UTC-7 wall clock
\* with the suffix -07:00.
C13_ConvertsToMinutesAgo ==
    (op = "try_convert_relative_time_to_pdt_iso" /\ ~IsNone(args.time_param_value)) =>
        \A nd \in 1..Len(Val(args.time_param_value)),
           w1 \in 1..Len(Val(args.time_param_value)), p \in {0, 1}, u \in Units :
            SplitsAs(Val(args.time_param_value), nd, w1, u, p) =>
                ReturnsMinutesAgo(
                    Num(Val(args.time_param_value), 1, nd) * MinutesOf(u))

\* the minutes from the epoch of 0001-01-01T00:00, the first instant a
\* datetime can hold
FirstInstant == DaysFromCivil(1, 1, 1) * 1440

\* C13, for the expressions that stay within the range of datetime: the
\* statement holds there.
C13_ConvertsWithinRange ==
    (op = "try_convert_relative_time_to_pdt_iso" /\ ~IsNone(args.time_param_value)) =>
        \A nd \in 1..Len(Val(args.time_param_value)),
           w1 \in 1..Len(Val(args.time_param_value)), p \in {0, 1}, u \in Units :
            ( /\ SplitsAs(Val(args.time_param_value), nd, w1, u, p)
              /\ args.now.min - 7 * 60
                     - Num(Val(args.time_param_value), 1, nd) * MinutesOf(u)
                     >= FirstInstant )
                => ReturnsMinutesAgo(
                       Num(Val(args.time_param_value), 1, nd) * MinutesOf(u))

C13_WithinRangeWitness ==
    /\ op = "try_convert_relative_time_to_pdt_iso"
    /\ args.time_param_value
           = Some(<<"9", "0", " ", "m", "i", "n", "u", "t", "e", "s", " ", "a", "g", "o">>)
    /\ args.now.micro # 0
    /\ ReturnsMinutesAgo(90)

\* the calls of api_response_handler that return the records: the name is
\* neither blank nor a key of the envelope itself, and the records fit the limit
OrdinaryCall ==
    /\ op = "api_response_handler"
    /\ ~AllWhitespace(args.resource_name)
    /\ ~Reserved(args.resource_name)
    /\ Len(AsList(args.results)) <= args.limit

IsFoundText(d, n, name) ==
    /\ d.fmt = "Found {n} {word} for resource type {name}"
    /\ d.n = n
    /\ d.name = name

\* md is the computed defaults overridden by the caller's mapping am
MergedFrom(md, am, n, name) ==
    /\ DOMAIN md = DOMAIN am \cup {"count", "description"}
    /\ \A k \in DOMAIN am : md[k] = am[k]
    /\ "count" \notin DOMAIN am => md["count"] = n
    /\ "description" \notin DOMAIN am => IsFoundText(md["description"], n, name)

C14_DefaultsWitness ==
    /\ OrdinaryCall
    /\ ~IsNone(args.additional_metadata)
    /\ DOMAIN Val(args.additional_metadata) = {"owner"}
    /\ outcome = "return"
    /\ result.v[KMetadata].v["count"] = Len(AsList(args.results))

\* the caller gives neither count nor description
KeepsDefaults(o) ==
    IsNone(o) \/ DOMAIN Val(o) \cap {"count", "description"} = {}

\* env holds the records under key and describes them with the word
Describes(env, key, records, word) ==
    /\ CountIs(env, Len(records))
    /\ HasList(env, key)
    /\ env[key].v = records
    /\ IsFoundText(env[KMetadata].v["description"], Len(records), key)
    /\ env[KMetadata].v["description"].word = word

C15_EmptyListWitness ==
    /\ OrdinaryCall
    /\ KeepsDefaults(args.additional_metadata)
    /\ args.results = [t |-> "list", v |-> <<>>]
    /\ args.limit = 0
    /\ outcome = "return"
    /\ result.v[KMetadata].v["description"].word = "results"

\* the monitors api.Monitor.search returned, if it returned any
SearchedMonitors ==
    IF args.search.raises THEN <<>>
    ELSE IF IsNone(args.search.value) THEN <<>>
    ELSE IF "monitors" \notin DOMAIN Val(args.search.value) THEN <<>>
    ELSE Val(args.search.value)["monitors"]

\* the positions of the monitors whose name is exactly monitor_name
ExactlyNamed ==
    {i \in 1..Len(SearchedMonitors) :
         /\ "name" \in DOMAIN SearchedMonitors[i]
         /\ SearchedMonitors[i]["name"] = args.monitor_name}

HasErrorKey(d) == "error" \in DOMAIN d

\* matches names the id and the name of each monitor at the positions
ListsMatches(matches, positions) ==
    /\ Len(matches) = Cardinality(positions)
    /\ \A i \in positions :
           \E k \in 1..Len(matches) :
               /\ matches[k].name = Some(SearchedMonitors[i]["name"])
               /\ matches[k].id = GetOpt(SearchedMonitors[i], "id")

\* C16: get_monitor_details_by_name never raises; it returns the monitor's
\* details only when exactly one monitor of the search result has exactly the
\* name monitor_name; when none has, it returns a dictionary with the key
\* 'error'; when two or more have, it returns 'error' and a list 'matches'
\* with the id and name of each of them.
C16_DetailsOnlyForUniqueName ==
    op = "get_monitor_details_by_name" =>
        /\ outcome = "return"
        /\ result.t = "dict"
        /\ ~HasErrorKey(result.v) =>
               /\ Cardinality(ExactlyNamed) = 1
               /\ ~args.get.raises
               /\ result.v = args.get.value
        /\ Cardinality(ExactlyNamed) = 0 => HasErrorKey(result.v)
        /\ Cardinality(ExactlyNamed) >= 2 =>
               /\ HasErrorKey(result.v)
               /\ "matches" \in DOMAIN result.v
               /\ ListsMatches(result.v["matches"], ExactlyNamed)

\* two monitors have the name, one of them without id
C16_Witness ==
    /\ op = "get_monitor_details_by_name"
    /\ Cardinality(ExactlyNamed) = 2
    /\ \E i \in ExactlyNamed : "id" \notin DOMAIN SearchedMonitors[i]
    /\ outcome = "return"
    /\ "matches" \in DOMAIN result.v

\* one monitor has the name, another contains it, and the details come back
C16_DetailsWitness ==
    /\ op = "get_monitor_details_by_name"
    /\ Len(SearchedMonitors) = 2
    /\ Cardinality(ExactlyNamed) = 1
    /\ outcome = "return"
    /\ ~HasErrorKey(result.v)

\* the search raises and the caller gets a dictionary with 'error'
C16_FailingSearchWitness ==
    /\ op = "get_monitor_details_by_name"
    /\ args.search.raises
    /\ outcome = "return"
    /\ HasErrorKey(result.v)

\* the items of the remote response of list_past_incidents
RemoteItems == args.remote.value["past_incidents"]

ScoreOf(item) == IF "score" \in DOMAIN item THEN item["score"] ELSE 0

\* the incident of out at position k comes from the item at position from[k]
ComesFrom(out, from, k) ==
    /\ out[k]["similarity_score"] = ScoreOf(RemoteItems[from[k]])
    /\ GetOpt(out[k], "id")
           = GetOpt(Get(RemoteItems[from[k]], "incident", EmptyDict), "id")

\* from is a one-to-one map of the positions of out onto those of the items;
\* scores do not increase along out, and equal scores keep the items' order
StablySortedBy(out, from) ==
    /\ \A k \in 1..Len(out) : ComesFrom(out, from, k)
    /\ \A j, k \in 1..Len(out) : j # k => from[j] # from[k]
    /\ \A k \in 1..(Len(out) - 1) :
           \/ out[k]["similarity_score"] > out[k + 1]["similarity_score"]
           \/ /\ out[k]["similarity_score"] = out[k + 1]["similarity_score"]
              /\ from[k] < from[k + 1]

ReturnsPastIncidents ==
    /\ op = "list_past_incidents"
    /\ outcome = "return"
    /\ HasList(result.v, NIncidents)

\* C17: the 'incidents' list list_past_incidents returns holds one incident
\* for each item of the remote response, none lost and none twice, in
\* non-increasing order of similarity_score; an item without score has
\* similarity_score 0, and items of equal score keep their order.
C17_PastIncidentsSorted ==
    ReturnsPastIncidents =>
        /\ Len(result.v[NIncidents].v) = Len(RemoteItems)
        /\ \E from \in [1..Len(RemoteItems) -> 1..Len(RemoteItems)] :
               StablySortedBy(result.v[NIncidents].v, from)

\* two items of equal score come back in the order they came in
C17_Witness ==
    /\ ReturnsPastIncidents
    /\ Len(RemoteItems) = MaxPage
    /\ GetOpt(Get(RemoteItems[1], "incident", EmptyDict), "id") = Some("C")
    /\ GetOpt(Get(RemoteItems[MaxPage], "incident", EmptyDict), "id") = Some("A")
    /\ GetOpt(result.v[NIncidents].v[1], "id") = Some("C")

\* an item without score goes behind one with a score
C17_NoScoreWitness ==
    /\ ReturnsPastIncidents
    /\ Len(RemoteItems) = MaxPage
    /\ "score" \notin DOMAIN RemoteItems[1]
    /\ ScoreOf(RemoteItems[MaxPage]) > 0
    /\ result.v[NIncidents].v[MaxPage]["similarity_score"] = 0

\* the three counts are consistent with one another and with n incidents
ConsistentCounts(m, n) ==
    /\ m["autoresolve_count"] <= m["status_counts"]["resolved"]
    /\ m["status_counts"]["triggered"] + m["status_counts"]["acknowledged"]
           + m["status_counts"]["resolved"] <= n
    /\ m["no_data_count"] <= n

\* list_incidents returned the incidents
ReturnsIncidents ==
    /\ op = "list_incidents"
    /\ outcome = "return"
    /\ HasList(result.v, NIncidents)

\* C18: the values of _calculate_incident_metadata satisfy autoresolve_count
\* <= status_counts.resolved, triggered + acknowledged + resolved <= number of
\* incidents and no_data_count <= number of incidents; and in the envelope of
\* list_incidents they are those of the records metadata.count counts, so that
\* the sum of status_counts is at most metadata.count.
C18_CountsAreConsistent ==
    /\ op = "_calculate_incident_metadata" =>
           /\ outcome = "return"
           /\ ConsistentCounts(result.v, Len(args.incidents))
    /\ ReturnsIncidents =>
           /\ CountIs(result.v, Len(result.v[NIncidents].v))
           /\ Len(result.v[NIncidents].v) = Len(args.remote.value)
           /\ ConsistentCounts(result.v[KMetadata].v,
                               result.v[KMetadata].v["count"])

\* one incident resolved by a service, one merged incident changed by a
\* service: only the first is counted
C18_Witness ==
    /\ op = "_calculate_incident_metadata"
    /\ Len(args.incidents) = MaxIncidents
    /\ outcome = "return"
    /\ result.v["autoresolve_count"] = 1
    /\ result.v["status_counts"]["resolved"] = 1
    /\ \E i \in 1..Len(args.incidents) :
           /\ GetOpt(args.incidents[i], "status") = Some("merged")
           /\ ChangedByService(args.incidents[i])

\* an envelope of list_incidents whose counts add up to less than its count
C18_EnvelopeWitness ==
    /\ ReturnsIncidents
    /\ result.v[KMetadata].v["count"] = MaxPage
    /\ result.v[KMetadata].v["status_counts"]["resolved"] = 1
    /\ result.v[KMetadata].v["status_counts"]["triggered"] = 0
    /\ result.v[KMetadata].v["autoresolve_count"] = 1

-----------------------------------------------------------------------------

====
